---- MODULE Spec2Model ----
(***************************************************************************)
(* Model of the mandala-quicksilver core (src/src/lib.rs): the transition  *)
(* clock, the interpolation of the open / closed endpoint states and the   *)
(* petal draw loop.                                                        *)
(*                                                                         *)
(* Numbers.  Every f32 of the program is modelled as an extended rational  *)
(* [n, d]: n/d in lowest terms with d > 0 for a finite number, and d = 0   *)
(* for the IEEE special values (n = 0: NaN, n = 1: +inf, n = -1: -inf).    *)
(* The arithmetic follows IEEE-754 for the special values (0/0 = NaN,      *)
(* x/0 = inf, inf * 0 = NaN, every comparison with NaN is false).  The     *)
(* rounding of f32 and the sign of zero are not modelled: finite results   *)
(* are exact.                                                              *)
(***************************************************************************)
EXTENDS Integers, Sequences, FiniteSets, TLC

----------------------------------------------------------------------------
(* f32 values and arithmetic                                               *)

Abs(i) == IF i < 0 THEN -i ELSE i

Sign(i) == IF i < 0 THEN -1 ELSE IF i > 0 THEN 1 ELSE 0

RECURSIVE GCD(_, _)
GCD(a, b) == IF b = 0 THEN a ELSE GCD(b, a % b)

\* n/d in lowest terms, d # 0
Norm(n, d) ==
    LET g == GCD(Abs(n), Abs(d))
    IN  [n |-> Sign(d) * (n \div g), d |-> Abs(d) \div g]

F(n, d) == Norm(n, d)

Zero == [n |-> 0, d |-> 1]
One == [n |-> 1, d |-> 1]
NaN == [n |-> 0, d |-> 0]
Inf == [n |-> 1, d |-> 0]
NegInf == [n |-> -1, d |-> 0]

is_nan(x) == x.d = 0 /\ x.n = 0
is_infinite(x) == x.d = 0 /\ x.n # 0
is_finite(x) == x.d # 0

FNeg(x) == [n |-> -(x.n), d |-> x.d]

FAdd(x, y) ==
    IF is_nan(x) \/ is_nan(y) THEN NaN
    ELSE IF is_infinite(x) /\ is_infinite(y) THEN (IF x.n = y.n THEN x ELSE NaN)
    ELSE IF is_infinite(x) THEN x
    ELSE IF is_infinite(y) THEN y
    ELSE IF x.d = 1 /\ y.d = 1 THEN [n |-> x.n + y.n, d |-> 1]
    ELSE LET g == GCD(x.d, y.d)
         IN  Norm(x.n * (y.d \div g) + y.n * (x.d \div g), (x.d \div g) * y.d)

FSub(x, y) == FAdd(x, FNeg(y))

FMul(x, y) ==
    IF is_nan(x) \/ is_nan(y) THEN NaN
    ELSE IF is_infinite(x) \/ is_infinite(y)
         THEN (IF x.n = 0 \/ y.n = 0 THEN NaN
               ELSE [n |-> Sign(x.n) * Sign(y.n), d |-> 0])
    ELSE IF x.d = 1 /\ y.d = 1 THEN [n |-> x.n * y.n, d |-> 1]
    ELSE Norm(x.n * y.n, x.d * y.d)

FDiv(x, y) ==
    IF is_nan(x) \/ is_nan(y) THEN NaN
    ELSE IF is_infinite(y) THEN (IF is_infinite(x) THEN NaN ELSE Zero)
    ELSE IF is_infinite(x) THEN [n |-> x.n * (IF y.n < 0 THEN -1 ELSE 1), d |-> 0]
    ELSE IF y.n = 0 THEN (IF x.n = 0 THEN NaN ELSE [n |-> Sign(x.n), d |-> 0])
    ELSE Norm(x.n * y.d, x.d * y.n)

\* ==, >, >=, <, <= of f32: false as soon as one side is NaN
FEq(x, y) == ~is_nan(x) /\ ~is_nan(y) /\ x = y

FGt(x, y) ==
    /\ ~is_nan(x) /\ ~is_nan(y)
    /\ IF is_infinite(x) \/ is_infinite(y)
       THEN x # y /\ (x = Inf \/ y = NegInf)
       ELSE x.n * y.d > y.n * x.d

FGe(x, y) == FGt(x, y) \/ FEq(x, y)
FLt(x, y) == FGt(y, x)
FLe(x, y) == FGe(y, x)

----------------------------------------------------------------------------
(* MandalaTransition: the transition clock                                 *)

\* a constructor taking the duration for the start time and the start time
\* for the duration
MandalaTransition_new_swapped(start_time, duration, start_value, end_value) ==
    [start_time |-> duration, duration |-> start_time,
     start_value |-> start_value, end_value |-> end_value]

MandalaTransition_new(start_time, duration, start_value, end_value) ==
    [start_time |-> start_time, duration |-> duration,
     start_value |-> start_value, end_value |-> end_value]

\* fixed_value with no duration at all
fixed_value_instant(value) ==
    [start_time |-> Zero, duration |-> Zero,
     start_value |-> value, end_value |-> value]

fixed_value(value) ==
    [start_time |-> Zero, duration |-> F(1, 10),
     start_value |-> value, end_value |-> value]

\* current_percent saturating as soon as the clock has started
current_percent_early(tr, current_time) ==
    IF FGt(current_time, tr.start_time) THEN One
    ELSE FDiv(FSub(current_time, tr.start_time), tr.duration)

\* current_percent without the saturation at the end of the transition
current_percent_unclamped(tr, current_time) ==
    FDiv(FSub(current_time, tr.start_time), tr.duration)

\* current_percent starting over once the transition has ended
current_percent_restarting(tr, current_time) ==
    LET end_time == FAdd(tr.start_time, tr.duration)
    IN  IF FGt(current_time, end_time) THEN Zero
        ELSE FDiv(FSub(current_time, tr.start_time), tr.duration)

\* Mandala::current_percent, without its debug assertion
current_percent(tr, current_time) ==
    LET end_time == FAdd(tr.start_time, tr.duration)
    IN  IF FGt(current_time, end_time) THEN One
        ELSE FDiv(FSub(current_time, tr.start_time), tr.duration)

\* current_value going only half of the way to the end value
current_value_halfway(tr, current_time) ==
    LET start == tr.start_value
        end == tr.end_value
    IN  FAdd(start, FMul(FMul(FSub(end, start), F(1, 2)),
                         current_percent(tr, current_time)))

\* current_value interpolating from the end value on
current_value_from_end(tr, current_time) ==
    LET start == tr.start_value
        end == tr.end_value
    IN  FAdd(end, FMul(FSub(end, start), current_percent(tr, current_time)))

\* Mandala::current_value, without its debug assertions
current_value(tr, current_time) ==
    LET start == tr.start_value
        end == tr.end_value
    IN  FAdd(start, FMul(FSub(end, start), current_percent(tr, current_time)))

\* the debug_assert! of current_percent
current_percent_asserts(tr, current_time) == FGe(current_time, tr.start_time)

\* the debug_assert!s met by a call of current_value
current_value_asserts(tr, current_time) ==
    /\ FGe(current_time, Zero)
    /\ current_percent_asserts(tr, current_time)
    /\ is_finite(current_value(tr, current_time))

\* the debug_assert!s met by a call of start_transition
start_transition_asserts(tr, current_time, transition_duration, target_value) ==
    /\ FGe(current_time, Zero)
    /\ FGe(transition_duration, Zero)
    /\ is_finite(target_value)
    /\ current_value_asserts(tr, current_time)

----------------------------------------------------------------------------
(* quicksilver Color and Transform, as lib.rs uses them                    *)

Color(r, g, b, a) == [r |-> r, g |-> g, b |-> b, a |-> a]

RED == Color(One, Zero, Zero, One)
YELLOW == Color(One, One, Zero, One)

\* a Transform is a 3x3 matrix of f32, rows first
IDENTITY == << <<One, Zero, Zero>>, <<Zero, One, Zero>>, <<Zero, Zero, One>> >>

\* Transform * Transform: the matrix product; element (i, j) is summed in
\* the order k = 0, 1, 2 from 0.0
TMulAt(a, b, i, j) ==
    FAdd(FAdd(FAdd(Zero, FMul(b[1][j], a[i][1])),
              FMul(b[2][j], a[i][2])),
         FMul(b[3][j], a[i][3]))

TMul(a, b) ==
    << <<TMulAt(a, b, 1, 1), TMulAt(a, b, 1, 2), TMulAt(a, b, 1, 3)>>,
       <<TMulAt(a, b, 2, 1), TMulAt(a, b, 2, 2), TMulAt(a, b, 2, 3)>>,
       <<TMulAt(a, b, 3, 1), TMulAt(a, b, 3, 2), TMulAt(a, b, 3, 3)>> >>

\* Transform + Transform, Transform - Transform, Transform * f32: elementwise
TAdd(a, b) ==
    << <<FAdd(a[1][1], b[1][1]), FAdd(a[1][2], b[1][2]), FAdd(a[1][3], b[1][3])>>,
       <<FAdd(a[2][1], b[2][1]), FAdd(a[2][2], b[2][2]), FAdd(a[2][3], b[2][3])>>,
       <<FAdd(a[3][1], b[3][1]), FAdd(a[3][2], b[3][2]), FAdd(a[3][3], b[3][3])>> >>

TSub(a, b) ==
    << <<FSub(a[1][1], b[1][1]), FSub(a[1][2], b[1][2]), FSub(a[1][3], b[1][3])>>,
       <<FSub(a[2][1], b[2][1]), FSub(a[2][2], b[2][2]), FSub(a[2][3], b[2][3])>>,
       <<FSub(a[3][1], b[3][1]), FSub(a[3][2], b[3][2]), FSub(a[3][3], b[3][3])>> >>

TScale(a, w) ==
    << <<FMul(a[1][1], w), FMul(a[1][2], w), FMul(a[1][3], w)>>,
       <<FMul(a[2][1], w), FMul(a[2][2], w), FMul(a[2][3], w)>>,
       <<FMul(a[3][1], w), FMul(a[3][2], w), FMul(a[3][3], w)>> >>

translate(x, y) == << <<One, Zero, x>>, <<Zero, One, y>>, <<Zero, Zero, One>> >>

scale(x, y) == << <<x, Zero, Zero>>, <<Zero, y, Zero>>, <<Zero, Zero, One>> >>

\* cosine and sine of an angle in degrees; the model only meets whole
\* multiples of a quarter turn, whose cosine and sine are exact
Quadrant(angle) == (angle.n \div 90) % 4

cos_deg(angle) ==
    CASE angle.d = 1 /\ angle.n % 90 = 0 ->
        F(<<1, 0, -1, 0>>[Quadrant(angle) + 1], 1)

sin_deg(angle) ==
    CASE angle.d = 1 /\ angle.n % 90 = 0 ->
        F(<<0, 1, 0, -1>>[Quadrant(angle) + 1], 1)

rotate(angle) ==
    LET c == cos_deg(angle)
        s == sin_deg(angle)
    IN  << <<c, FNeg(s), Zero>>, <<s, c, Zero>>, <<Zero, Zero, One>> >>

----------------------------------------------------------------------------
(* MutableMesh and the ShapeRenderer sink                                  *)

\* the petal outline of the fixtures and the number of triangles its fill
\* tessellation yields at tolerance 0.01 (660 triangles for 5 petals)
PetalPath == "tests/petal.svg"
TrianglesPerPetal == 660 \div 5

MutableMesh_new(svg_file_name) ==
    [color |-> RED, transform |-> IDENTITY, path |-> svg_file_name]

set_transform(m, transform) == [m EXCEPT !.transform = transform]

\* a set_color that also puts the transform back to the identity
set_color_resetting(m, color) == [m EXCEPT !.color = color, !.transform = IDENTITY]

set_color(m, color) == [m EXCEPT !.color = color]

\* a tessellation that starts the sink afresh instead of adding to it
tesselate_fresh(m, shape_renderer) ==
    << [color |-> m.color, transform |-> m.transform,
        path |-> m.path, triangles |-> TrianglesPerPetal] >>

\* one fill tessellation: the triangles of the outline enter the sink with
\* the color and the transform the mesh holds at this moment
tesselate(m, shape_renderer) ==
    Append(shape_renderer,
           [color |-> m.color, transform |-> m.transform,
            path |-> m.path, triangles |-> TrianglesPerPetal])

----------------------------------------------------------------------------
(* MandalaState and Mandala                                                *)

MandalaState_new(color, petal_rotate_transform, petal_scale_transform, petal_translate_transform) ==
    [color |-> color,
     petal_rotate_transform |-> petal_rotate_transform,
     petal_scale_transform |-> petal_scale_transform,
     petal_translate_transform |-> petal_translate_transform]

Mandala_new(petal_svg_filename, screen_position, sc, petal_count, mandala_state_open, mandala_state_closed, value) ==
    LET petal_angle == FDiv(F(360, 1), F(petal_count, 1))
    IN  [petal_count |-> petal_count,
         mandala_state_open |-> mandala_state_open,
         mandala_state_closed |-> mandala_state_closed,
         mandala_center |-> TMul(translate(screen_position[1], screen_position[2]),
                                 scale(sc[1], sc[2])),
         petal_rotation |-> [i \in 1..petal_count |->
                                rotate(FMul(petal_angle, F(i - 1, 1)))],
         current_transition |-> fixed_value(value),
         petal |-> MutableMesh_new(petal_svg_filename)]

\* start_transition departing again from the start value of the clock it
\* replaces, not from the value reached
start_transition_from_start(self, current_time, transition_duration, target_value) ==
    [self EXCEPT !.current_transition =
        MandalaTransition_new(current_time, transition_duration,
                              self.current_transition.start_value, target_value)]

\* start_transition building the petal template anew
start_transition_resetting(self, current_time, transition_duration, target_value) ==
    LET value == current_value(self.current_transition, current_time)
    IN  [self EXCEPT !.current_transition =
                        MandalaTransition_new(current_time, transition_duration,
                                              value, target_value),
                     !.petal = MutableMesh_new(self.petal.path)]

\* release behaviour of Mandala::start_transition
start_transition(self, current_time, transition_duration, target_value) ==
    LET value == current_value(self.current_transition, current_time)
    IN  [self EXCEPT !.current_transition =
            MandalaTransition_new(current_time, transition_duration,
                                  value, target_value)]

interpolate_value(self, current_time, start, end) ==
    FAdd(start, FMul(FSub(end, start),
                     current_value(self.current_transition, current_time)))

current_transform(self, current_time, start, end) ==
    TAdd(start, TScale(TSub(end, start),
                       current_value(self.current_transition, current_time)))

\* interpolate_color taking the green channel from the endpoints of blue
interpolate_color_crossed(self, current_time) ==
    [r |-> interpolate_value(self, current_time,
                             self.mandala_state_closed.color.r,
                             self.mandala_state_open.color.r),
     g |-> interpolate_value(self, current_time,
                             self.mandala_state_closed.color.b,
                             self.mandala_state_open.color.b),
     b |-> interpolate_value(self, current_time,
                             self.mandala_state_closed.color.b,
                             self.mandala_state_open.color.b),
     a |-> interpolate_value(self, current_time,
                             self.mandala_state_closed.color.a,
                             self.mandala_state_open.color.a)]

interpolate_color(self, current_time) ==
    [r |-> interpolate_value(self, current_time,
                             self.mandala_state_closed.color.r,
                             self.mandala_state_open.color.r),
     g |-> interpolate_value(self, current_time,
                             self.mandala_state_closed.color.g,
                             self.mandala_state_open.color.g),
     b |-> interpolate_value(self, current_time,
                             self.mandala_state_closed.color.b,
                             self.mandala_state_open.color.b),
     a |-> interpolate_value(self, current_time,
                             self.mandala_state_closed.color.a,
                             self.mandala_state_open.color.a)]

current_state(self, current_time) ==
    [color |-> interpolate_color(self, current_time),
     petal_rotate_transform |->
        current_transform(self, current_time,
                          self.mandala_state_open.petal_rotate_transform,
                          self.mandala_state_closed.petal_rotate_transform),
     petal_scale_transform |->
        current_transform(self, current_time,
                          self.mandala_state_open.petal_scale_transform,
                          self.mandala_state_closed.petal_scale_transform),
     petal_translate_transform |->
        current_transform(self, current_time,
                          self.mandala_state_open.petal_translate_transform,
                          self.mandala_state_closed.petal_translate_transform)]

\* the petal transform with the translate and scale factors exchanged
petal_transform_swapped(self, mandala_state, i) ==
    TMul(TMul(TMul(TMul(self.mandala_center, self.petal_rotation[i + 1]),
                   mandala_state.petal_scale_transform),
              mandala_state.petal_translate_transform),
         mandala_state.petal_rotate_transform)

\* the transform draw gives to the petal of slot i (0-based)
petal_transform(self, mandala_state, i) ==
    TMul(TMul(TMul(TMul(self.mandala_center, self.petal_rotation[i + 1]),
                   mandala_state.petal_translate_transform),
              mandala_state.petal_scale_transform),
         mandala_state.petal_rotate_transform)

\* the petal loop stopping one slot early
RECURSIVE draw_loop_short(_, _, _, _)
draw_loop_short(self, mandala_state, i, shape_renderer) ==
    IF i + 1 >= self.petal_count
    THEN [self |-> self, shape_renderer |-> shape_renderer]
    ELSE LET petal == set_transform(self.petal,
                                    petal_transform(self, mandala_state, i))
         IN  draw_loop_short([self EXCEPT !.petal = petal], mandala_state, i + 1,
                             tesselate(petal, shape_renderer))

\* the petal loop of draw from slot i on; yields the Mandala and the sink
RECURSIVE draw_loop(_, _, _, _)
draw_loop(self, mandala_state, i, shape_renderer) ==
    IF i >= self.petal_count
    THEN [self |-> self, shape_renderer |-> shape_renderer]
    ELSE LET petal == set_transform(self.petal,
                                    petal_transform(self, mandala_state, i))
         IN  draw_loop([self EXCEPT !.petal = petal], mandala_state, i + 1,
                       tesselate(petal, shape_renderer))

\* release behaviour of Mandala::draw
draw(self, current_time, shape_renderer) ==
    LET mandala_state == current_state(self, current_time)
        colored == [self EXCEPT !.petal = set_color(self.petal, mandala_state.color)]
    IN  draw_loop(colored, mandala_state, 0, shape_renderer)

\* Mandala::draw when tessellate_path returns Err for slot k: the slots
\* before k are in the sink, the petal holds the transform of slot k, the
\* sink may hold a part of that petal's triangles, and unwrap() panics
draw_failing(self, current_time, shape_renderer, k, partial) ==
    CHOOSE result \in
        {[self |-> [self EXCEPT !.petal = petal],
          shape_renderer |->
            IF partial = 0 THEN before.shape_renderer
            ELSE Append(before.shape_renderer,
                        [color |-> petal.color, transform |-> petal.transform,
                         path |-> petal.path, triangles |-> partial])] :
            before \in {draw([self EXCEPT !.petal_count = k], current_time,
                             shape_renderer)},
            petal \in {set_transform(
                          set_color(self.petal,
                                    interpolate_color(self, current_time)),
                          petal_transform(self, current_state(self, current_time), k))}} :
        TRUE

----------------------------------------------------------------------------
(* MuseModel (src/src/muse_model.rs): the countdowns of the temporary      *)
(* display states and the channel the handled messages are sent into       *)

FOREHEAD_COUNTDOWN == 30
BLINK_COUNTDOWN == 30
CLENCH_COUNTDOWN == 30

\* model(): the countdown fields of a new MuseModel
MuseModel_new ==
    [blink_countdown |-> 0,
     touching_forehead_countdown |-> 0,
     jaw_clench_countdown |-> 0]

is_jaw_clench(self) == self.jaw_clench_countdown > 0

is_blink(self) == self.blink_countdown > 0

is_touching_forehead(self) == self.touching_forehead_countdown > 0

\* the messages of the headband: the three whose flag drives a countdown,
\* and one of the data messages (Alpha) for all those that only store values
Blink(blink) == [muse_message_type |-> "Blink", flag |-> blink]
TouchingForehead(touch) == [muse_message_type |-> "TouchingForehead", flag |-> touch]
JawClench(clench) == [muse_message_type |-> "JawClench", flag |-> clench]
Alpha == [muse_message_type |-> "Alpha", flag |-> FALSE]

MuseMessages ==
    {Blink(TRUE), Blink(FALSE), TouchingForehead(TRUE), TouchingForehead(FALSE),
     JawClench(TRUE), JawClench(FALSE), Alpha}

\* a count_down with no test for zero
count_down_unguarded(self) ==
    [blink_countdown |-> self.blink_countdown - 1,
     touching_forehead_countdown |-> self.touching_forehead_countdown - 1,
     jaw_clench_countdown |-> self.jaw_clench_countdown - 1]

count_down(self) ==
    [blink_countdown |->
        IF self.blink_countdown > 0 THEN self.blink_countdown - 1
        ELSE self.blink_countdown,
     touching_forehead_countdown |->
        IF self.touching_forehead_countdown > 0
        THEN self.touching_forehead_countdown - 1
        ELSE self.touching_forehead_countdown,
     jaw_clench_countdown |->
        IF self.jaw_clench_countdown > 0 THEN self.jaw_clench_countdown - 1
        ELSE self.jaw_clench_countdown]

\* the countdowns after handle_message; the message itself goes to tx_eeg
handle_message(self, muse_message) ==
    CASE muse_message.muse_message_type = "TouchingForehead" ->
            IF ~muse_message.flag
            THEN [self EXCEPT !.touching_forehead_countdown = FOREHEAD_COUNTDOWN]
            ELSE self
      [] muse_message.muse_message_type = "Blink" ->
            IF muse_message.flag
            THEN [self EXCEPT !.blink_countdown = BLINK_COUNTDOWN]
            ELSE self
      [] muse_message.muse_message_type = "JawClench" ->
            IF muse_message.flag
            THEN [self EXCEPT !.jaw_clench_countdown = CLENCH_COUNTDOWN]
            ELSE self
      [] OTHER -> self

----------------------------------------------------------------------------
(* Path ingestion: svg_to_path and the files it reads                      *)

\* an event of svg::parser::Parser: a tag with its attributes, or text
Tag(name, attributes) == [kind |-> "Tag", name |-> name, attributes |-> attributes]
Text == [kind |-> "Text"]

\* the path data build_path accepts
ValidPathData == {"M0,0 C10,20 30,20 40,0 Z", "M1,1 L2,2 Z", "m5,5 l1,0 l0,1 z"}

\* the files of the model: the file of the fixtures, a file that can not be
\* opened, and documents with no, one and several path-data attributes
Files ==
    [name \in {"tests/petal.svg", "missing.svg", "empty.svg", "no_path.svg",
               "two_paths.svg", "nested.svg", "d_on_circle.svg",
               "bad_grammar.svg", "bad_then_good.svg"} |->
        CASE name = "tests/petal.svg" ->
                [readable |-> TRUE,
                 events |-> <<Tag("svg", [width |-> "100"]),
                              Tag("path", [d |-> "M0,0 C10,20 30,20 40,0 Z"]),
                              Tag("svg", [x \in {} |-> ""])>>]
          [] name = "missing.svg" -> [readable |-> FALSE, events |-> <<>>]
          [] name = "empty.svg" -> [readable |-> TRUE, events |-> <<>>]
          [] name = "no_path.svg" ->
                [readable |-> TRUE,
                 events |-> <<Tag("svg", [width |-> "100"]), Text,
                              Tag("rect", [x |-> "1", y |-> "2"])>>]
          [] name = "two_paths.svg" ->
                [readable |-> TRUE,
                 events |-> <<Tag("svg", [width |-> "100"]),
                              Tag("path", [d |-> "M1,1 L2,2 Z"]), Text,
                              Tag("path", [d |-> "m5,5 l1,0 l0,1 z"])>>]
          [] name = "nested.svg" ->
                [readable |-> TRUE,
                 events |-> <<Tag("svg", [width |-> "100"]),
                              Tag("g", [id |-> "layer"]), Text,
                              Tag("path", [id |-> "petal", d |-> "m5,5 l1,0 l0,1 z"]),
                              Tag("g", [x \in {} |-> ""])>>]
          [] name = "d_on_circle.svg" ->
                [readable |-> TRUE,
                 events |-> <<Tag("circle", [d |-> "M1,1 L2,2 Z"]),
                              Tag("path", [d |-> "m5,5 l1,0 l0,1 z"])>>]
          [] name = "bad_grammar.svg" ->
                [readable |-> TRUE,
                 events |-> <<Tag("path", [d |-> "not a path"])>>]
          [] name = "bad_then_good.svg" ->
                [readable |-> TRUE,
                 events |-> <<Tag("path", [d |-> "not a path"]),
                              Tag("path", [d |-> "M1,1 L2,2 Z"])>>]]

FileNames == DOMAIN Files

\* the result of a call that may panic
Returns(value) == [ok |-> TRUE, path |-> value]
Panics == [ok |-> FALSE, path |-> ""]

\* the loop of extract_path_str_from_svg_str from event i on
RECURSIVE extract_from(_, _)
extract_from(events, i) ==
    IF i > Len(events) THEN Panics
    ELSE IF events[i].kind = "Tag" /\ "d" \in DOMAIN events[i].attributes
         THEN Returns(events[i].attributes["d"])
         ELSE extract_from(events, i + 1)

\* the loop looking at path elements only
RECURSIVE extract_from_paths(_, _)
extract_from_paths(events, i) ==
    IF i > Len(events) THEN Panics
    ELSE IF events[i].kind = "Tag" /\ events[i].name = "path"
               /\ "d" \in DOMAIN events[i].attributes
         THEN Returns(events[i].attributes["d"])
         ELSE extract_from_paths(events, i + 1)

\* extract_path_str_from_svg_str of path elements only
extract_path_str_of_path_elements(svg_str) == extract_from_paths(svg_str, 1)

extract_path_str_from_svg_str(svg_str) == extract_from(svg_str, 1)

\* build_path(..).unwrap() on the extracted path data
parse_path_from_svg_str(svg_str) ==
    LET path_str == extract_path_str_from_svg_str(svg_str)
    IN  IF path_str.ok /\ path_str.path \in ValidPathData THEN path_str
        ELSE Panics

svg_to_path(file_name) ==
    IF Files[file_name].readable
    THEN parse_path_from_svg_str(Files[file_name].events)
    ELSE Panics

----------------------------------------------------------------------------
(* The program: one Mandala, one sink, and the calls made on them          *)

MaxTransitions == 2
MaxDraws == 2

\* the time arguments of the reads: whole seconds and a time inside the
\* 0.1 s of the initial clock
Times == {F(-1, 1), Zero, F(1, 20), One, F(2, 1), F(3, 1), F(4, 1)}

\* the time arguments of start_transition
CallTimes == {F(-1, 1), Zero, One, F(2, 1)}

\* durations: negative, none and two seconds
Durations == {F(-1, 1), Zero, F(2, 1)}

\* targets: closed, open and a non-finite one
Targets == {Zero, One, Inf}

InitialValues == {Zero, One}

\* petal counts whose slot angles are whole quarter turns
PetalCounts == {0, 1, 2, 4}

\* the endpoint states as the integration tests build them
FixtureOpen ==
    MandalaState_new(RED, rotate(F(90, 1)), translate(F(50, 1), Zero),
                     scale(One, One))

FixtureClosed ==
    MandalaState_new(YELLOW, rotate(Zero), translate(Zero, Zero),
                     scale(F(1, 10), One))

VARIABLES
    debug_assertions,   \* the build keeps debug_assert! (debug profile)
    mandala,            \* the Mandala
    mesh,               \* the sink behind the ShapeRenderer
    panicked,           \* a panic has unwound the program
    op,                 \* the last call made
    arg_time,           \* its time argument
    transitions,        \* number of start_transition calls that returned
    draws,              \* number of draw calls that returned
    arg_file,           \* the file name argument of the last construction
    model,              \* the MuseModel
    tx_eeg              \* the messages sent into the tx_eeg / rx_eeg channel

vars == <<debug_assertions, mandala, mesh, panicked, op, arg_time,
          transitions, draws, arg_file, model, tx_eeg>>

\* what the calls on the Mandala leave alone
outside_mandala == <<debug_assertions, arg_file, model, tx_eeg>>

Init ==
    /\ debug_assertions \in BOOLEAN
    /\ \E petal_count \in PetalCounts, value \in InitialValues :
         mandala = Mandala_new(PetalPath, <<F(500, 1), F(500, 1)>>,
                               <<F(2, 1), F(2, 1)>>, petal_count,
                               FixtureOpen, FixtureClosed, value)
    /\ mesh = <<>>
    /\ panicked = FALSE
    /\ op = "new"
    /\ arg_time = Zero
    /\ transitions = 0
    /\ draws = 0
    /\ arg_file = PetalPath
    /\ model = MuseModel_new
    /\ tx_eeg = <<>>

\* a failed debug_assert! unwinds before the call has changed anything
Panic ==
    /\ panicked' = TRUE
    /\ UNCHANGED <<mandala, mesh, transitions, draws>>

\* Mandala::new on a file of the model: MutableMesh::new reads the outline
\* with svg_to_path, whose panic leaves no Mandala behind
New(petal_svg_filename, petal_count, value) ==
    /\ ~panicked
    /\ op' = "new"
    /\ arg_time' = Zero
    /\ arg_file' = petal_svg_filename
    /\ IF ~svg_to_path(petal_svg_filename).ok
       THEN Panic
       ELSE /\ mandala' = Mandala_new(petal_svg_filename, <<F(500, 1), F(500, 1)>>,
                                      <<F(2, 1), F(2, 1)>>, petal_count,
                                      FixtureOpen, FixtureClosed, value)
            /\ transitions' = 0
            /\ UNCHANGED <<mesh, panicked, draws>>
    /\ UNCHANGED <<debug_assertions, model, tx_eeg>>

StartTransition(current_time, transition_duration, target_value) ==
    /\ ~panicked
    /\ op' = "start_transition"
    /\ arg_time' = current_time
    /\ IF debug_assertions
          /\ ~start_transition_asserts(mandala.current_transition, current_time,
                                       transition_duration, target_value)
       THEN Panic
       ELSE /\ mandala' = start_transition(mandala, current_time,
                                           transition_duration, target_value)
            /\ transitions' = transitions + 1
            /\ UNCHANGED <<mesh, panicked, draws>>
    /\ UNCHANGED outside_mandala

CurrentValue(current_time) ==
    /\ ~panicked
    /\ op' = "current_value"
    /\ arg_time' = current_time
    /\ IF debug_assertions
          /\ ~current_value_asserts(mandala.current_transition, current_time)
       THEN Panic
       ELSE UNCHANGED <<mandala, mesh, panicked, transitions, draws>>
    /\ UNCHANGED outside_mandala

CurrentPercent(current_time) ==
    /\ ~panicked
    /\ op' = "current_percent"
    /\ arg_time' = current_time
    /\ IF debug_assertions
          /\ ~current_percent_asserts(mandala.current_transition, current_time)
       THEN Panic
       ELSE UNCHANGED <<mandala, mesh, panicked, transitions, draws>>
    /\ UNCHANGED outside_mandala

Draw(current_time) ==
    /\ ~panicked
    /\ op' = "draw"
    /\ arg_time' = current_time
    /\ IF debug_assertions
          /\ ~current_value_asserts(mandala.current_transition, current_time)
       THEN Panic
       ELSE LET result == draw(mandala, current_time, mesh)
            IN  /\ mandala' = result.self
                /\ mesh' = result.shape_renderer
                /\ draws' = draws + 1
                /\ UNCHANGED <<panicked, transitions>>
    /\ UNCHANGED outside_mandala

\* a draw call in which the tessellation of slot k fails
DrawFailing(current_time, k, partial) ==
    /\ ~panicked
    /\ k < mandala.petal_count
    /\ op' = "draw"
    /\ arg_time' = current_time
    /\ IF debug_assertions
          /\ ~current_value_asserts(mandala.current_transition, current_time)
       THEN Panic
       ELSE LET result == draw_failing(mandala, current_time, mesh, k, partial)
            IN  /\ mandala' = result.self
                /\ mesh' = result.shape_renderer
                /\ panicked' = TRUE
                /\ UNCHANGED <<transitions, draws>>
    /\ UNCHANGED outside_mandala

\* what the last call returned, when it was a read that returned
Returned ==
    IF op = "current_percent"
    THEN current_percent(mandala.current_transition, arg_time)
    ELSE current_value(mandala.current_transition, arg_time)

----------------------------------------------------------------------------
(* SpecClock: the transition clock under sequences of start_transition     *)
(* calls and reads, on a Mandala of two petals                             *)

InitClock == Init /\ mandala.petal_count = 2

NextClock ==
    \/ /\ transitions < MaxTransitions
       /\ \E t \in CallTimes, d \in Durations, v \in Targets :
            StartTransition(t, d, v)
    \/ \E t \in Times : CurrentValue(t)
    \/ \E t \in Times : CurrentPercent(t)

SpecClock == InitClock /\ [][NextClock]_vars

----------------------------------------------------------------------------
(* Spec: the whole program, every petal count, at most one re-targeting    *)

MaxRetargets == 1

FrameTimes == {One, F(2, 1), F(3, 1)}

Next ==
    \/ /\ transitions < MaxRetargets
       /\ \E d \in {Zero, F(2, 1)}, v \in {Zero, One} : StartTransition(One, d, v)
    \/ CurrentValue(F(2, 1))
    \/ CurrentPercent(F(2, 1))
    \/ /\ draws < MaxDraws
       /\ \E t \in FrameTimes : Draw(t)

Spec == Init /\ [][Next]_vars

----------------------------------------------------------------------------
(* SpecMesh: the calls of a MutableMesh, made on the petal of the Mandala  *)

MaxTessellations == 2
MeshColors == {RED, YELLOW}
MeshTransforms == {IDENTITY, translate(F(50, 1), Zero), rotate(F(90, 1))}

SetColor(color) ==
    /\ ~panicked
    /\ op' = "set_color"
    /\ mandala' = [mandala EXCEPT !.petal = set_color(@, color)]
    /\ UNCHANGED <<mesh, panicked, arg_time, transitions, draws>>
    /\ UNCHANGED outside_mandala

SetTransform(transform) ==
    /\ ~panicked
    /\ op' = "set_transform"
    /\ mandala' = [mandala EXCEPT !.petal = set_transform(@, transform)]
    /\ UNCHANGED <<mesh, panicked, arg_time, transitions, draws>>
    /\ UNCHANGED outside_mandala

Tesselate ==
    /\ ~panicked
    /\ Len(mesh) < MaxTessellations
    /\ op' = "tesselate"
    /\ mesh' = tesselate(mandala.petal, mesh)
    /\ UNCHANGED <<mandala, panicked, arg_time, transitions, draws>>
    /\ UNCHANGED outside_mandala

NextMesh ==
    \/ \E color \in MeshColors : SetColor(color)
    \/ \E transform \in MeshTransforms : SetTransform(transform)
    \/ Tesselate

SpecMesh == Init /\ [][NextMesh]_vars

----------------------------------------------------------------------------
(* SpecContract: the calls of a caller that keeps the contract of the      *)
(* clock: times that are not negative and never go back, durations above   *)
(* zero, finite targets                                                    *)

ContractTimes == {Zero, One, F(3, 1)}
ContractDurations == {F(2, 1)}
ContractTargets == {One, F(-2, 1)}

NextContract ==
    \/ /\ transitions < MaxTransitions
       /\ \E t \in ContractTimes, d \in ContractDurations, v \in ContractTargets :
            FGe(t, arg_time) /\ StartTransition(t, d, v)
    \/ \E t \in ContractTimes : FGe(t, arg_time) /\ CurrentValue(t)
    \/ \E t \in ContractTimes : FGe(t, arg_time) /\ CurrentPercent(t)
    \/ /\ draws < MaxDraws
       /\ \E t \in ContractTimes : FGe(t, arg_time) /\ Draw(t)

SpecContract == InitClock /\ [][NextContract]_vars

----------------------------------------------------------------------------
(* SpecLive: the contract-keeping caller under a clock that advances.  The *)
(* update loop reads the value with the time of the frame, and the time of *)
(* the frames keeps growing: a read at a later time is taken as long as    *)
(* there is one.  Calls come while the time is at most 2, the reads go on  *)
(* to time 4, where every transition has ended.                            *)

LiveTimes == {Zero, One, F(2, 1), F(3, 1), F(4, 1)}
LiveCallTimes == {Zero, One, F(2, 1)}
LiveDurations == {One, F(2, 1)}
LiveTargets == {Zero, One, F(-2, 1)}

\* a frame later than the last one asks how far the transition has come
Advance == \E t \in LiveTimes : FGt(t, arg_time) /\ CurrentPercent(t)

NextLive ==
    \/ /\ transitions < MaxTransitions
       /\ \E t \in LiveCallTimes, d \in LiveDurations, v \in LiveTargets :
            FGe(t, arg_time) /\ StartTransition(t, d, v)
    \/ \E t \in LiveTimes : FGe(t, arg_time) /\ CurrentValue(t)
    \/ \E t \in LiveTimes : FGe(t, arg_time) /\ CurrentPercent(t)

SpecLive == InitClock /\ [][NextLive]_vars /\ WF_vars(Advance)

----------------------------------------------------------------------------
(* SpecMuse: the headband model beside the Mandala.  Every message handled *)
(* is sent on tx_eeg; the receiving end rx_eeg is a private field that no  *)
(* code reads, so the program has no step that takes a message out again.  *)

MaxMessages == 2

HandleMessage(muse_message) ==
    /\ ~panicked
    /\ Len(tx_eeg) < MaxMessages
    /\ op' = "handle_message"
    /\ model' = handle_message(model, muse_message)
    /\ tx_eeg' = Append(tx_eeg, muse_message)
    /\ UNCHANGED <<mandala, mesh, panicked, arg_time, transitions, draws>>
    /\ UNCHANGED <<debug_assertions, arg_file>>

CountDown ==
    /\ ~panicked
    /\ op' = "count_down"
    /\ model' = count_down(model)
    /\ UNCHANGED <<mandala, mesh, panicked, arg_time, transitions, draws>>
    /\ UNCHANGED <<debug_assertions, arg_file, tx_eeg>>

NextMuse ==
    \/ \E muse_message \in MuseMessages : HandleMessage(muse_message)
    \/ CountDown

SpecMuse == InitClock /\ [][NextMuse]_vars

----------------------------------------------------------------------------
(* SpecSvg: constructions of a Mandala from the files of the model         *)

NextSvg ==
    \E file_name \in FileNames, petal_count \in PetalCounts, value \in InitialValues :
        New(file_name, petal_count, value)

SpecSvg == Init /\ [][NextSvg]_vars

----------------------------------------------------------------------------
(* SpecTess: the program when a fill tessellation may fail                 *)

\* triangles of the failing petal that reached the sink before the error
PartialTriangles == {0, 1}

NextTess ==
    \/ /\ transitions < MaxRetargets
       /\ \E d \in {Zero, F(2, 1)}, v \in {Zero, One} : StartTransition(One, d, v)
    \/ /\ draws < MaxDraws
       /\ \E t \in FrameTimes : Draw(t)
    \/ /\ draws < MaxDraws
       /\ \E t \in {F(2, 1)}, k \in 0..3, partial \in PartialTriangles :
            DrawFailing(t, k, partial)

SpecTess == Init /\ [][NextTess]_vars

----------------------------------------------------------------------------
(* Claims                                                                  *)

Clock == mandala.current_transition

EndTime(tr) == FAdd(tr.start_time, tr.duration)

\* a step in which a start_transition call returned
StartTransitionReturned == transitions' = transitions + 1

\* C1: re-targeting is snap-free -- for every start_transition(now, d2,
\* target2) call with now >= the start_time of the clock it replaces,
\* current_value(now) read just before the call equals current_value(now)
\* read just after it.
C1_SnapFree ==
    [][(StartTransitionReturned /\ FGe(arg_time', Clock.start_time))
         => FEq(current_value(Clock, arg_time'),
                current_value(Clock', arg_time'))]_vars

\* the four fields of a clock are numbers
ClockIsNumeric(tr) ==
    /\ is_finite(tr.start_time) /\ is_finite(tr.duration)
    /\ is_finite(tr.start_value) /\ is_finite(tr.end_value)

\* start_value + (end_value - start_value) * (t - start_time) / duration
Lerp(tr, t) ==
    FAdd(tr.start_value,
         FDiv(FMul(FSub(tr.end_value, tr.start_value), FSub(t, tr.start_time)),
              tr.duration))

\* the clock of test_mandala_transition: 3.0 -> 5.0, started at 4.0 over 4.0
TestClock ==
    start_transition([current_transition |-> fixed_value(F(3, 1))],
                     F(4, 1), F(4, 1), F(5, 1)).current_transition

\* C2: for a clock with duration > 0, current_value(t) is start_value at
\* start_time, the linear interpolation between start_time and start_time +
\* duration, and end_value from start_time + duration on; the test clock
\* gives 3.0 at 4.0, 4.0 at 6.0 and 5.0 at 20.0.
C2_CurrentValue ==
    /\ (ClockIsNumeric(Clock) /\ FGt(Clock.duration, Zero)) =>
         /\ FEq(current_value(Clock, Clock.start_time), Clock.start_value)
         /\ \A t \in Times \cup {EndTime(Clock)} :
              /\ (FGe(t, Clock.start_time) /\ FLe(t, EndTime(Clock)))
                   => FEq(current_value(Clock, t), Lerp(Clock, t))
              /\ FGe(t, EndTime(Clock))
                   => FEq(current_value(Clock, t), Clock.end_value)
    /\ TestClock = MandalaTransition_new(F(4, 1), F(4, 1), F(3, 1), F(5, 1))
    /\ current_value(TestClock, F(4, 1)) = F(3, 1)
    /\ current_value(TestClock, F(6, 1)) = F(4, 1)
    /\ current_value(TestClock, F(20, 1)) = F(5, 1)

\* a current_value call returned the half-way value of a running transition
C2_Witness ==
    /\ op = "current_value" /\ ~panicked
    /\ ClockIsNumeric(Clock) /\ FGt(Clock.duration, Zero)
    /\ Clock.start_value = Zero /\ Clock.end_value = One
    /\ FGt(arg_time, Clock.start_time) /\ FLt(arg_time, EndTime(Clock))
    /\ Returned = F(1, 2)

\* C3: for a clock with duration > 0, current_percent is monotonic
\* non-decreasing on [start_time, start_time + duration], within [0, 1] from
\* start_time on, and exactly 1 from start_time + duration on.
C3_CurrentPercent ==
    (is_finite(Clock.start_time) /\ is_finite(Clock.duration)
       /\ FGt(Clock.duration, Zero)) =>
        \A t1, t2 \in Times \cup {Clock.start_time, EndTime(Clock)} :
            /\ (FGe(t1, Clock.start_time) /\ FLe(t1, t2) /\ FLe(t2, EndTime(Clock)))
                 => FLe(current_percent(Clock, t1), current_percent(Clock, t2))
            /\ FGe(t1, Clock.start_time)
                 => /\ FGe(current_percent(Clock, t1), Zero)
                    /\ FLe(current_percent(Clock, t1), One)
            /\ FGe(t1, EndTime(Clock))
                 => FEq(current_percent(Clock, t1), One)

\* a current_percent call returned 1 after the end of a requested transition
C3_Witness ==
    /\ op = "current_percent" /\ ~panicked
    /\ transitions > 0 /\ FGt(Clock.duration, Zero)
    /\ FGt(arg_time, EndTime(Clock))
    /\ Returned = One

\* C4: the clock is determined by the last start_transition call alone --
\* at every time t >= now_last + duration_last, current_value(t) is the
\* target of the last call, whatever earlier calls requested.
C4_LastCallWins ==
    transitions > 0 =>
        \A t \in Times :
            FGe(t, EndTime(Clock)) => FEq(current_value(Clock, t), Clock.end_value)

\* C5: at every time from its start on the clock is running (percent < 1)
\* or settled (percent == 1); draw, current_value and current_percent leave
\* the clock as it is, only start_transition replaces it, and right after
\* start_transition(now, d, target) with d > 0 current_percent(now) is 0.
C5_RunningOrSettled ==
    /\ [](\A t \in FrameTimes :
            FGe(t, Clock.start_time)
              => \/ FLt(current_percent(Clock, t), One)
                 \/ FEq(current_percent(Clock, t), One))
    /\ [][/\ op' \in {"draw", "current_value", "current_percent"} => Clock' = Clock
          /\ Clock' # Clock => StartTransitionReturned
          /\ (StartTransitionReturned /\ FGt(Clock'.duration, Zero))
               => FEq(current_percent(Clock', arg_time'), Zero)]_vars

\* the Mandala as the fixtures construct it with initial value v
Constructed(petal_count, v) ==
    Mandala_new(PetalPath, <<F(500, 1), F(500, 1)>>, <<F(2, 1), F(2, 1)>>,
                petal_count, FixtureOpen, FixtureClosed, v)

C7_Endpoints ==
    \A t \in FrameTimes :
        /\ FEq(current_value(Clock, t), Zero)
             => current_state(mandala, t) = mandala.mandala_state_closed
        /\ FEq(current_value(Clock, t), One)
             => current_state(mandala, t) = mandala.mandala_state_open

\* the last call was a draw and it returned
DrawReturned == op = "draw" /\ ~panicked

\* the copy the last draw emitted for slot k (0-based)
Emitted(k) == mesh[Len(mesh) - mandala.petal_count + k + 1]

\* C8: the transform draw gives to petal slot k is the product
\* center * slot[k] * translate * scale * rotate, in this order, of the
\* three transforms of the one current_state(now) of the draw.
C8_Composition ==
    DrawReturned =>
        LET st == current_state(mandala, arg_time)
        IN  \A k \in 0..(mandala.petal_count - 1) :
                Emitted(k).transform =
                    TMul(mandala.mandala_center,
                         TMul(mandala.petal_rotation[k + 1],
                              TMul(st.petal_translate_transform,
                                   TMul(st.petal_scale_transform,
                                        st.petal_rotate_transform))))

\* a draw of four petals half-way through a transition returned
C8_Witness ==
    /\ DrawReturned
    /\ mandala.petal_count = 4
    /\ current_value(Clock, arg_time) = F(1, 2)
    /\ Emitted(0).transform # Emitted(1).transform

\* C9: one draw tessellates the petal exactly petal_count times, once per
\* slot k with slot[k] = rotate(k * 360 / petal_count); the copies carry the
\* same color and transforms that differ in the slot rotation only.
C9_PetalCopies ==
    /\ Len(mesh) = draws * mandala.petal_count
    /\ Len(mandala.petal_rotation) = mandala.petal_count
    /\ \A k \in 0..(mandala.petal_count - 1) :
         mandala.petal_rotation[k + 1] =
            rotate(FDiv(F(k * 360, 1), F(mandala.petal_count, 1)))
    /\ DrawReturned =>
         LET st == current_state(mandala, arg_time)
             pose == TMul(TMul(st.petal_translate_transform,
                               st.petal_scale_transform),
                          st.petal_rotate_transform)
         IN  \A k \in 0..(mandala.petal_count - 1) :
                /\ Emitted(k).color = st.color
                /\ Emitted(k).path = PetalPath
                /\ Emitted(k).transform =
                      TMul(TMul(mandala.mandala_center,
                                mandala.petal_rotation[k + 1]), pose)

\* a first draw of four petals returned, with four different transforms
C9_Witness ==
    /\ DrawReturned /\ draws = 1
    /\ mandala.petal_count = 4 /\ Len(mesh) = 4
    /\ \A j, k \in 0..3 : j # k => Emitted(j).transform # Emitted(k).transform

\* the number of triangles in a sink
RECURSIVE Triangles(_)
Triangles(sink) ==
    IF sink = <<>> THEN 0 ELSE Head(sink).triangles + Triangles(Tail(sink))

ExampleMandala ==
    [Constructed(2, F(1, 2)) EXCEPT
        !.mandala_state_closed.color = Color(Zero, One, One, F(1, 10)),
        !.mandala_state_open.color = Color(One, Zero, Zero, One)]

\* its weight and the color of its current_state
ExampleWeight == current_value(ExampleMandala.current_transition, One)

ExampleColor == current_state(ExampleMandala, One).color

\* closed.c + (open.c - closed.c) * w
ChannelLerp(closed_c, open_c, w) == FAdd(closed_c, FMul(FSub(open_c, closed_c), w))

\* C11: every color channel of current_state(now) is closed.c + (open.c -
\* closed.c) * current_value(now), computed from that channel's endpoints
\* alone; closed {0, 1, 1, 0.1} and open {1, 0, 0, 1} at weight 0.5 give
\* {0.5, 0.5, 0.5, 0.55}.
C11_ColorLerp ==
    /\ \A t \in FrameTimes :
         LET w == current_value(Clock, t)
             closed == mandala.mandala_state_closed.color
             open == mandala.mandala_state_open.color
             c == current_state(mandala, t).color
         IN  /\ c.r = ChannelLerp(closed.r, open.r, w)
             /\ c.g = ChannelLerp(closed.g, open.g, w)
             /\ c.b = ChannelLerp(closed.b, open.b, w)
             /\ c.a = ChannelLerp(closed.a, open.a, w)
    /\ ExampleWeight = F(1, 2)
    /\ ExampleColor = Color(F(1, 2), F(1, 2), F(1, 2), F(11, 20))

\* a draw half-way between the yellow and the red fixture colors returned
C11_Witness ==
    /\ DrawReturned /\ mandala.petal_count > 0
    /\ current_value(Clock, arg_time) = F(1, 2)
    /\ Emitted(0).color = Color(One, F(1, 2), Zero, One)

InUnit(x) == FGe(x, Zero) /\ FLe(x, One)

\* a clock with a positive duration between two values of [0, 1]
UnitClock(tr) ==
    /\ is_finite(tr.start_time)
    /\ is_finite(tr.duration) /\ FGt(tr.duration, Zero)
    /\ InUnit(tr.start_value) /\ InUnit(tr.end_value)

\* C12: if the initial value and the target of every start_transition call
\* lie in [0, 1], with durations > 0 and non-decreasing call times, then
\* after any sequence of calls current_value(t) lies in [0, 1] at every t
\* at or after the start of the latest clock.  Stated by induction over the
\* calls: the constructed clock is a unit clock, such a call on a unit clock
\* leaves a unit clock, and a unit clock reads within [0, 1].
C12_ValueInUnit ==
    /\ [](transitions = 0 => UnitClock(Clock))
    /\ [][(/\ StartTransitionReturned
           /\ UnitClock(Clock)
           /\ FGe(arg_time', Clock.start_time)
           /\ FGt(Clock'.duration, Zero)
           /\ InUnit(Clock'.end_value))
            => /\ UnitClock(Clock')
               /\ Clock'.start_time = arg_time']_vars
    /\ [](UnitClock(Clock) =>
            \A t \in Times \cup {EndTime(Clock)} :
                FGe(t, Clock.start_time) => InUnit(current_value(Clock, t)))

\* a read in the middle of a transition that re-targeted another one in
\* its middle
C12_Witness ==
    /\ op = "current_value" /\ ~panicked
    /\ transitions = 2 /\ UnitClock(Clock)
    /\ Clock.start_value = F(1, 2) /\ Clock.end_value = Zero
    /\ FGt(arg_time, Clock.start_time)
    /\ Returned = F(1, 4)

\* C13: for a clock with duration > 0, current_value(t) is monotonic in t
\* on t >= start_time (non-decreasing when end_value >= start_value,
\* non-increasing otherwise), never passes end_value, and is end_value
\* wherever current_percent is 1.
C13_Monotonic ==
    (ClockIsNumeric(Clock) /\ FGt(Clock.duration, Zero)) =>
        \A t1, t2 \in Times \cup {Clock.start_time, EndTime(Clock)} :
            (FGe(t1, Clock.start_time) /\ FLe(t1, t2)) =>
                LET v1 == current_value(Clock, t1)
                    v2 == current_value(Clock, t2)
                IN  /\ IF FGe(Clock.end_value, Clock.start_value)
                       THEN FLe(v1, v2) /\ FLe(v2, Clock.end_value)
                       ELSE FGe(v1, v2) /\ FGe(v2, Clock.end_value)
                    /\ FEq(current_percent(Clock, t1), One)
                         => FEq(v2, Clock.end_value)

\* a read in the middle of a closing transition, between open and closed
C13_Witness ==
    /\ op = "current_value" /\ ~panicked
    /\ ClockIsNumeric(Clock) /\ FGt(Clock.duration, Zero)
    /\ Clock.start_value = One /\ Clock.end_value = Zero
    /\ FGt(arg_time, Clock.start_time) /\ FLt(arg_time, EndTime(Clock))
    /\ FLt(Returned, One) /\ FGt(Returned, Zero)

\* C14: a call with a time earlier than the start_time of the clock fails
\* loudly when debug assertions are on; when they are off the read is
\* clamped or ignored: the percent returned is not negative and the value
\* returned is not behind start_value.
C14_Backdated ==
    /\ [][(debug_assertions /\ FLt(arg_time', Clock.start_time))
            => panicked']_vars
    /\ []((~debug_assertions /\ ClockIsNumeric(Clock)
             /\ FGt(Clock.duration, Zero)
             /\ FLt(arg_time, Clock.start_time)) =>
            /\ op = "current_percent" => FGe(Returned, Zero)
            /\ op = "current_value" =>
                 \/ FEq(Returned, Clock.start_value)
                 \/ /\ FGt(Returned, Clock.start_value)
                    /\ FLe(Returned, Clock.end_value)
                 \/ /\ FLt(Returned, Clock.start_value)
                    /\ FGe(Returned, Clock.end_value))

\* C15: a non-finite target never enters the clock -- with debug
\* assertions on the call fails, with assertions off it is clamped or
\* ignored: after a start_transition call with a positive duration, made on
\* a clock of numbers at a time not before its start, every current_value
\* read from that time on is finite, whatever the target was.
C15_NonFiniteTarget ==
    /\ [](debug_assertions => is_finite(Clock.end_value))
    /\ [][(/\ StartTransitionReturned
           /\ ClockIsNumeric(Clock) /\ FGt(Clock.duration, Zero)
           /\ FGe(arg_time', Clock.start_time)
           /\ FGt(Clock'.duration, Zero))
            => \A t \in Times :
                FGe(t, arg_time') => is_finite(current_value(Clock', t))]_vars

\* C16: a non-positive duration has a defined outcome -- after every
\* start_transition call that returned (made with a finite target on a
\* clock of numbers, at a time not before its start), current_percent and
\* current_value are finite at every time from the call time on, the call
\* time included.
C16_Duration ==
    [][(/\ StartTransitionReturned
        /\ ClockIsNumeric(Clock) /\ FGt(Clock.duration, Zero)
        /\ FGe(arg_time', Clock.start_time)
        /\ is_finite(Clock'.end_value))
         => \A t \in Times :
              FGe(t, arg_time') =>
                /\ is_finite(current_percent(Clock', t))
                /\ is_finite(current_value(Clock', t))]_vars

\* C17: a Mandala of zero petals has an empty slot table and emits no
\* geometry: every draw call on it returns and leaves the sink as it was.
C17_NoPetals ==
    /\ [](mandala.petal_count = 0 =>
            /\ mandala.petal_rotation = <<>>
            /\ mesh = <<>>)
    /\ [][(mandala.petal_count = 0 /\ op' = "draw")
            => /\ ~panicked'
               /\ draws' = draws + 1
               /\ mesh' = mesh]_vars

\* C18: draw is read-only on the Mandala -- after draw(now, sink) the
\* clock, both endpoint states, the slot rotations, the center transform,
\* the petal count and the petal template (outline, color and transform)
\* are what they were before the call.
C18_DrawReadOnly ==
    [][op' = "draw" =>
        /\ mandala'.current_transition = mandala.current_transition
        /\ mandala'.mandala_state_open = mandala.mandala_state_open
        /\ mandala'.mandala_state_closed = mandala.mandala_state_closed
        /\ mandala'.petal_rotation = mandala.petal_rotation
        /\ mandala'.mandala_center = mandala.mandala_center
        /\ mandala'.petal_count = mandala.petal_count
        /\ mandala'.petal.path = mandala.petal.path
        /\ mandala'.petal.color = mandala.petal.color
        /\ mandala'.petal.transform = mandala.petal.transform]_vars

\* the center transform and the slot tables Mandala::new builds
ConstructedCenter ==
    TMul(translate(F(500, 1), F(500, 1)), scale(F(2, 1), F(2, 1)))

ConstructedSlots ==
    [petal_count \in PetalCounts |-> Constructed(petal_count, Zero).petal_rotation]

\* C19: the slot rotations and the center transform keep the values
\* Mandala::new gave them over any sequence of start_transition and draw
\* calls, and a start_transition call changes no field but the clock.
C19_FixedGeometry ==
    /\ [](/\ mandala.mandala_center = ConstructedCenter
          /\ mandala.petal_rotation = ConstructedSlots[mandala.petal_count])
    /\ [][op' = "start_transition" =>
            /\ mandala'.petal_count = mandala.petal_count
            /\ mandala'.mandala_state_open = mandala.mandala_state_open
            /\ mandala'.mandala_state_closed = mandala.mandala_state_closed
            /\ mandala'.petal_rotation = mandala.petal_rotation
            /\ mandala'.mandala_center = mandala.mandala_center
            /\ mandala'.petal = mandala.petal
            /\ mesh' = mesh]_vars

\* a start_transition call that replaced the clock of a four-petal Mandala
\* after two draws
C19_Witness ==
    /\ op = "start_transition" /\ ~panicked
    /\ transitions = 1 /\ draws = 2
    /\ mandala.petal_count = 4
    /\ Clock.end_value # Clock.start_value
    /\ mandala.petal.transform # IDENTITY

\* C20: a tessellation failure on one petal is recoverable -- every draw
\* call whose clock read passes the assertions returns, with every petal
\* but at most one added to the sink.
C20_TessellationFailure ==
    [][(op' = "draw"
          /\ (debug_assertions => current_value_asserts(Clock, arg_time')))
        => /\ ~panicked'
           /\ draws' = draws + 1
           /\ Len(mesh') >= Len(mesh) + mandala.petal_count - 1]_vars

\* the events of a document that carry a path-data attribute
CarriesPathData(events) ==
    {i \in 1..Len(events) :
        events[i].kind = "Tag" /\ "d" \in DOMAIN events[i].attributes}

\* the path data of the first of them, in document order
FirstPathData(events) ==
    LET first == CHOOSE i \in CarriesPathData(events) :
                    \A j \in CarriesPathData(events) : i <= j
    IN  events[first].attributes["d"]

\* C21: a construction takes the outline from the first element, in
\* document order, that carries a path-data attribute; when the file is
\* unreadable or no element carries one, the construction fails and no
\* Mandala is produced.
C21_PathIngestion ==
    [][op' = "new" =>
        LET file == Files[arg_file']
        IN  /\ (~file.readable \/ CarriesPathData(file.events) = {})
                 => panicked' /\ mandala' = mandala
            /\ ~panicked' =>
                 /\ mandala'.petal.path = arg_file'
                 /\ svg_to_path(arg_file') =
                       Returns(FirstPathData(file.events))]_vars

\* a Mandala constructed from a document whose first path data sits on an
\* element that is not a path, with a path element after it
C21_Witness ==
    /\ op = "new" /\ ~panicked
    /\ arg_file = "d_on_circle.svg"
    /\ mandala.petal.path = "d_on_circle.svg"
    /\ svg_to_path(arg_file) = Returns("M1,1 L2,2 Z")

\* C22: set_color and set_transform emit nothing and change only their own
\* field of the mesh; the next tessellation emits the outline with the
\* color and the transform set last, whatever the order of the two calls.
C22_Mutators ==
    /\ [](\A color \in MeshColors, transform \in MeshTransforms :
            LET petal == mandala.petal
                colored == set_color(petal, color)
                placed == set_transform(petal, transform)
                emitted == tesselate(set_transform(colored, transform), mesh)
                other_order == tesselate(set_color(placed, color), mesh)
            IN  /\ colored = [petal EXCEPT !.color = color]
                /\ placed = [petal EXCEPT !.transform = transform]
                /\ other_order = emitted
                /\ Len(emitted) = Len(mesh) + 1
                /\ SubSeq(emitted, 1, Len(mesh)) = mesh
                /\ emitted[Len(emitted)].color = color
                /\ emitted[Len(emitted)].transform = transform
                /\ emitted[Len(emitted)].path = petal.path)
    /\ [][/\ op' \in {"set_color", "set_transform"} =>
               /\ mesh' = mesh
               /\ mandala'.petal.path = mandala.petal.path
          /\ op' = "set_color" =>
               mandala'.petal.transform = mandala.petal.transform
          /\ op' = "set_transform" =>
               mandala'.petal.color = mandala.petal.color
          /\ op' = "tesselate" =>
               /\ mandala' = mandala
               /\ mesh' = Append(mesh, [color |-> mandala.petal.color,
                                        transform |-> mandala.petal.transform,
                                        path |-> mandala.petal.path,
                                        triangles |-> TrianglesPerPetal])]_vars

\* two tessellations with a set_color and a set_transform between them
C22_Witness ==
    /\ op = "tesselate"
    /\ Len(mesh) >= 2
    /\ mesh[1].color = RED /\ mesh[1].transform = IDENTITY
    /\ mesh[2].color = YELLOW /\ mesh[2].transform = rotate(F(90, 1))
    /\ mandala.petal.color = YELLOW

\* C23: each sample the headband model delivers on its channel results in
\* exactly one start_transition call on the Mandala.
C23_OneCallPerSample ==
    [][op' = "handle_message" =>
          /\ Len(tx_eeg') = Len(tx_eeg) + 1
          /\ transitions' = transitions + 1]_vars

\* the message handled last: every message handled is sent on tx_eeg
LastMessage(sent) == sent[Len(sent)]

\* the model after n count_down calls
RECURSIVE CountDowns(_, _)
CountDowns(self, n) == IF n = 0 THEN self ELSE CountDowns(count_down(self), n - 1)

InWindow(countdown) == countdown \in 0..30

\* C29: the three countdowns stay in 0..=30; after a Blink{blink: true}
\* message is_blink() is true through the next 29 count_down calls and
\* false from the 30th on; a further Blink{blink: true} restarts the window
\* at 30 instead of adding to it, and a Blink{blink: false} does not
\* shorten it.
C29_BlinkWindow ==
    /\ [](/\ InWindow(model.blink_countdown)
          /\ InWindow(model.jaw_clench_countdown)
          /\ InWindow(model.touching_forehead_countdown))
    /\ []((op = "handle_message" /\ LastMessage(tx_eeg) = Blink(TRUE)) =>
             \A n \in 0..32 :
                LET later == CountDowns(model, n)
                IN  /\ is_blink(later) <=> n <= 29
                    /\ handle_message(later, Blink(TRUE)).blink_countdown = 30
                    /\ handle_message(later, Blink(FALSE)) = later)
    /\ [][/\ (op' = "handle_message" /\ LastMessage(tx_eeg') = Blink(TRUE))
               => model'.blink_countdown = 30
          /\ (op' = "handle_message" /\ LastMessage(tx_eeg') # Blink(TRUE))
               => model'.blink_countdown = model.blink_countdown
          /\ op' = "count_down"
               => model'.blink_countdown =
                     IF is_blink(model) THEN model.blink_countdown - 1 ELSE 0]_vars

\* 29 count_down calls after a blink, with a Blink{blink: false} handled in
\* the window: the blink is still on, for the last time
C29_Witness ==
    /\ op = "count_down"
    /\ tx_eeg = <<Blink(TRUE), Blink(FALSE)>>
    /\ model.blink_countdown = 1
    /\ is_blink(model)
    /\ ~is_blink(count_down(model))

\* C30: a TouchingForehead message with touch == true makes
\* is_touching_forehead() true, and one with touch == false never makes it
\* true.
C30_TouchingForehead ==
    [][(op' = "handle_message"
          /\ LastMessage(tx_eeg').muse_message_type = "TouchingForehead") =>
            IF LastMessage(tx_eeg').flag
            THEN is_touching_forehead(model')
            ELSE is_touching_forehead(model') = is_touching_forehead(model)]_vars

\* C24: a newly constructed Mandala performs a 3-second transition from the
\* open state (1) to the closed state (0), starting at creation.
C24_DefaultTransition ==
    transitions = 0 =>
        /\ FEq(Clock.start_time, Zero)
        /\ FEq(Clock.duration, F(3, 1))
        /\ FEq(Clock.start_value, One)
        /\ FEq(Clock.end_value, Zero)

\* the transforms the fixtures pass third (as translate) and fourth (as
\* scale) to MandalaState::new, for the open and for the closed state
PassedTranslateOpen == translate(F(50, 1), Zero)
PassedTranslateClosed == translate(Zero, Zero)
PassedScaleOpen == scale(One, One)
PassedScaleClosed == scale(F(1, 10), One)

\* C25: with MandalaState::new called as (color, rotate, translate, scale),
\* the transform passed as translate is the one draw applies right of the
\* slot rotation, and the transform passed as scale the one applied at the
\* scale position, right of it.
C25_PositionalArguments ==
    /\ mandala.mandala_state_open.petal_translate_transform = PassedTranslateOpen
    /\ mandala.mandala_state_open.petal_scale_transform = PassedScaleOpen
    /\ mandala.mandala_state_closed.petal_translate_transform = PassedTranslateClosed
    /\ mandala.mandala_state_closed.petal_scale_transform = PassedScaleClosed
    /\ DrawReturned =>
        \A k \in 0..(mandala.petal_count - 1) :
            Emitted(k).transform =
                TMul(mandala.mandala_center,
                     TMul(mandala.petal_rotation[k + 1],
                          TMul(current_transform(mandala, arg_time,
                                   PassedTranslateOpen, PassedTranslateClosed),
                               TMul(current_transform(mandala, arg_time,
                                        PassedScaleOpen, PassedScaleClosed),
                                    current_state(mandala, arg_time).petal_rotate_transform))))

Frozen ==
    /\ ~panicked
    /\ FGe(arg_time, EndTime(Clock))
    /\ \A t \in LiveTimes :
         FGe(t, arg_time) => FEq(current_value(Clock, t), Clock.end_value)

\* C27: when the time keeps advancing and start_transition is called only
\* finitely often, with durations above zero, the clock is settled from
\* some moment on: current_value equals the target of the last call and
\* stays equal to it at every later time.
C27_Freezes == <>[]Frozen

\* a frozen clock after two calls: the value read is the target of the
\* second call, not of the first
C27_Witness ==
    /\ Frozen
    /\ transitions = 2
    /\ op = "current_percent" /\ arg_time = F(4, 1)
    /\ Returned = One
    /\ Clock.start_time = F(2, 1) /\ Clock.duration = F(2, 1)
    /\ Clock.end_value = F(-2, 1)
    /\ Clock.start_value # Clock.end_value
    /\ current_value(Clock, arg_time) = F(-2, 1)

\* the distance between two values
Distance(x, y) == LET diff == FSub(x, y) IN IF diff.n < 0 THEN FNeg(diff) ELSE diff

\* a start_transition call that re-issues the target and the duration of the
\* running clock, which has not reached its target, before that clock ends
Reissued ==
    /\ StartTransitionReturned
    /\ ClockIsNumeric(Clock) /\ FGt(Clock.duration, Zero)
    /\ Clock.start_value # Clock.end_value
    /\ Clock'.end_value = Clock.end_value
    /\ Clock'.duration = Clock.duration
    /\ FGt(arg_time', Clock.start_time)
    /\ FLt(arg_time', EndTime(Clock))

====
